---- MODULE Spec2Model ----
(***************************************************************************)
(* Model of src/src/prediction/predictor_model.py: the Forecaster wrapper  *)
(* (one autoregressive model per entity), its fit / predict / save methods *)
(* and train_predictor_model.                                              *)
(*                                                                         *)
(* A table is a sequence of rows.  A row is [id, val]: `id` is the value   *)
(* of the identifier column (data_schema.id_col) and `val` is the rest of  *)
(* the row (the target value of a history row, the covariate value of a    *)
(* future row).  Every row of a table carries its position as `val`, so    *)
(* rows are distinguishable and order and selection are observable.        *)
(*                                                                         *)
(* Exceptions are modelled as outcomes: every operation returns its error  *)
(* ("none" when it returns normally) beside the state it leaves behind.    *)
(***************************************************************************)
EXTENDS Integers, Sequences, FiniteSets, TLC

\* ---------------------------------------------------------------- bounds
MaxRows == 4            \* rows of a history table
MaxFuture == 2          \* rows of a future table
MaxLag == 2             \* lags is an int L (lags 1..L), 1 <= L <= MaxLag
MaxRatio == 2           \* history_forecast_ratio, 0..MaxRatio

\* Entity identifiers; integers, so that the sort order of groupby is defined.
\* Histories hold rows of the entities of TrainIds; future tables hold rows of
\* any entity of Ids.
Ids == {1, 2, 3}

TrainIds == {1, 2}

\* Python's None where an int is expected (history_length, lines 77 and 222).
\* No int of the model is negative.
None == -1

\* ---------------------------------------------------------------- inputs
Table(idseq) == [i \in 1..Len(idseq) |-> [id |-> idseq[i], val |-> i]]

IdSeqs(S, n) == UNION {[1..k -> S] : k \in 0..n}

Histories == {Table(s) : s \in IdSeqs(TrainIds, MaxRows)}

FutureTables == {Table(s) : s \in IdSeqs(Ids, MaxFuture)}

\* ForecastingSchema, as far as the module reads it: forecast_length.  id_col
\* names the column `id`, target the column `val` of a history; future_covariates
\* is not empty in any schema of the model: it names the column `val` of a
\* future table, so exog is passed at every fit and every predict.
Schemas == [forecast_length : {1, 2}]

\* self.data_schema = None
NoSchema == [forecast_length |-> 0]

\* The hyperparameters dict: lags, and history_forecast_ratio when the key is
\* present (has_ratio).
NoRatio(lags) == [lags |-> lags, has_ratio |-> FALSE, history_forecast_ratio |-> 0]

Hyperparameters ==
    {NoRatio(l) : l \in 1..MaxLag}
    \cup [lags : 1..MaxLag, has_ratio : {TRUE}, history_forecast_ratio : 0..MaxRatio]

\* ---------------------------------------------------------------- pandas
\* Python truthiness of an Optional[int]: None and 0 are falsy.
Truthy(x) == x # None /\ x # 0

RECURSIVE SortedSeq(_)
SortedSeq(S) ==
    IF S = {} THEN <<>>
    ELSE LET m == CHOOSE x \in S : \A y \in S : x <= y
         IN  <<m>> \o SortedSeq(S \ {m})

RECURSIVE FirstSeen(_, _)
FirstSeen(idseq, seen) ==
    IF idseq = <<>> THEN <<>>
    ELSE IF Head(idseq) \in seen THEN FirstSeen(Tail(idseq), seen)
    ELSE <<Head(idseq)>> \o FirstSeen(Tail(idseq), seen \cup {Head(idseq)})

\* The identifiers of a table in order of first appearance.
FirstSeenIds(table) == FirstSeen([i \in 1..Len(table) |-> table[i].id], {})

\* groupby(id_col) with sort=False: keys in order of first appearance.
group_keys_unsorted(table) == FirstSeenIds(table)

\* list(table.groupby(id_col).groups.keys()): groupby sorts the keys (sort=True
\* is the default), so the keys come in ascending order.
group_keys(table) == SortedSeq({table[i].id : i \in 1..Len(table)})

RECURSIVE Select(_, _)
Select(table, id) ==
    IF table = <<>> THEN <<>>
    ELSE IF Head(table).id = id THEN <<Head(table).val>> \o Select(Tail(table), id)
    ELSE Select(Tail(table), id)

\* groupby(id_col).get_group(id).drop(columns=id_col): the rows of `id`, in table
\* order, without the identifier.  <<>> stands for the KeyError get_group raises
\* when no row has that identifier.
get_group(table, id) == Select(table, id)

\* series[-n:] for n > 0.
LastN(series, n) ==
    IF n >= Len(series) THEN series
    ELSE SubSeq(series, Len(series) - n + 1, Len(series))

\* ------------------------------------------------------------ Forecaster
\* A fitted ForecasterAutoreg: the series it was fitted on and its lags.
NoModel == [y |-> <<>>, lags |-> 0]

\* self.models = {}
EmptyModels == [k \in {} |-> NoModel]

\* Forecaster.__init__: the object after construction.  all_ids is not set by
\* __init__; it is read only behind the _is_trained guard of predict.
Forecaster(lags) ==
    [lags |-> lags, is_trained |-> FALSE, models |-> EmptyModels,
     all_ids |-> <<>>, data_schema |-> NoSchema]

\* ForecasterAutoreg.fit raises ValueError when the series is not longer than
\* the largest lag (no training row can be built).
TooShort(history, lags) == Len(history) <= lags

\* Forecaster._fit_on_series: [error, model].
fit_on_series(self, history, data_schema) ==
    IF TooShort(history, self.lags)
    THEN [error |-> "ValueError", model |-> NoModel]
    ELSE [error |-> "none", model |-> [y |-> history, lags |-> self.lags]]

\* The cut taken at the wrong end: series[:history_length].
truncate_head(series, history_length) ==
    IF Truthy(history_length)
    THEN SubSeq(series, 1, IF history_length >= Len(series) THEN Len(series)
                           ELSE history_length)
    ELSE series

\* `if history_length: series = series[-history_length:]` (lines 99-100).
truncate(series, history_length) ==
    IF Truthy(history_length) THEN LastN(series, history_length) ELSE series

\* The loop of fit (lines 98-102) from entity k on.  st is [models, calls,
\* error]: the registry so far, the (id, series) pairs handed to
\* _fit_on_series so far, and the error that ended the loop.
RECURSIVE fit_loop(_, _, _, _, _, _)
fit_loop(self, all_ids, history, data_schema, history_length, st) ==
    IF all_ids = <<>> THEN st
    ELSE LET id == Head(all_ids)
             series == truncate(get_group(history, id), history_length)
             r == fit_on_series(self, series, data_schema)
             calls == Append(st.calls, [id |-> id, y |-> series])
         IN  IF r.error # "none"
             THEN [models |-> st.models, calls |-> calls, error |-> r.error]
             ELSE fit_loop(self, Tail(all_ids), history, data_schema, history_length,
                      [models |-> [k \in DOMAIN st.models \cup {id} |->
                                      IF k = id THEN r.model ELSE st.models[k]],
                       calls |-> calls, error |-> "none"])

\* Forecaster.fit: [self, error, calls].  models is emptied before the loop;
\* all_ids, _is_trained and data_schema are assigned after it, so an exception
\* of the loop leaves them as they were.
fit(self, history, data_schema, history_length) ==
    LET all_ids == group_keys(history)
        r == fit_loop(self, all_ids, history, data_schema, history_length,
                      [models |-> EmptyModels, calls |-> <<>>, error |-> "none"])
    IN  IF r.error # "none"
        THEN [self |-> [self EXCEPT !.models = r.models],
              error |-> r.error, calls |-> r.calls]
        ELSE [self |-> [self EXCEPT !.models = r.models, !.all_ids = all_ids,
                                    !.is_trained = TRUE,
                                    !.data_schema = data_schema],
              error |-> "none", calls |-> r.calls]

\* The regressor: a fixed function of the training series, the lag window and
\* the exogenous value.
Sum(s) == LET RECURSIVE Acc(_)
              Acc(i) == IF i = 0 THEN 0 ELSE s[i] + Acc(i - 1)
          IN  Acc(Len(s))

Regress(model, window, x) == Len(model.y) + Sum(window) + x

\* ForecasterAutoreg.predict(steps, exog): one value per step, each computed
\* from the window of the last `lags` observed-or-predicted values.
RECURSIVE recursive_forecast(_, _, _)
recursive_forecast(model, window, exog) ==
    IF exog = <<>> THEN <<>>
    ELSE LET p == Regress(model, window, Head(exog))
         IN  <<p>> \o recursive_forecast(model, Append(Tail(window), p), Tail(exog))

\* One row of a forecast: the future row (without the identifier) with the
\* predicted value in the target column.
ForecastRows(future_df, forecast) ==
    [i \in 1..Len(future_df) |-> [val |-> future_df[i], prediction |-> forecast[i]]]

\* Forecaster._predict_on_series: [found, rows].  found = FALSE is the
\* `future_df = None` of line 175.
predict_on_series(self, key, future_df) ==
    IF key \in DOMAIN self.models
    THEN LET model == self.models[key]
         IN  [found |-> TRUE,
              rows |-> ForecastRows(future_df,
                         recursive_forecast(model, LastN(model.y, model.lags),
                                            future_df))]
    ELSE [found |-> FALSE, rows |-> <<>>]

\* The loop of predict (lines 147-150) over the entities of all_ids: [error,
\* out].  forecast.insert(0, id_col, id_) on the None of an entity without a
\* model raises AttributeError.
RECURSIVE predict_loop(_, _, _, _)
predict_loop(self, all_ids, test_data, out) ==
    IF all_ids = <<>> THEN [error |-> "none", out |-> out]
    ELSE LET id == Head(all_ids)
             f == predict_on_series(self, id, get_group(test_data, id))
         IN  IF ~f.found THEN [error |-> "AttributeError", out |-> <<>>]
             ELSE predict_loop(self, Tail(all_ids), test_data,
                      out \o [i \in 1..Len(f.rows) |->
                                 [id |-> id, val |-> f.rows[i].val,
                                  prediction |-> f.rows[i].prediction]])

\* `if not self._is_trained: raise NotFittedError` (lines 137 and 185), testing
\* the registry instead of the flag.
not_fitted_by_registry(self) == DOMAIN self.models = {}

\* `if not self._is_trained: raise NotFittedError` (lines 137 and 185).
not_fitted(self) == ~self.is_trained

\* predict, with every forecast also appended to the model's own series.
predict_updating(self, test_data) ==
    IF not_fitted(self)
    THEN [self |-> self, test_data |-> test_data,
          error |-> "NotFittedError", out |-> <<>>]
    ELSE LET r == predict_loop(self, self.all_ids, test_data, <<>>)
             made(k) == SelectSeq(r.out, LAMBDA row : row.id = k)
             upd(k) == [self.models[k] EXCEPT
                           !.y = @ \o [i \in 1..Len(made(k)) |-> made(k)[i].prediction]]
         IN  [self |-> [self EXCEPT !.models = [k \in DOMAIN self.models |-> upd(k)]],
              test_data |-> test_data, error |-> r.error, out |-> r.out]

\* Forecaster.predict: [self, test_data, error, out]: the object and the
\* caller's table after the call, the exception raised and the table returned.
\* get_group raises KeyError for the first entity of all_ids without a row in
\* test_data, before any forecast is made; pd.concat raises ValueError on an
\* empty list.  drop(columns=...) copies, so the column assignment of line 171
\* does not reach test_data.
predict(self, test_data) ==
    IF not_fitted(self)
    THEN [self |-> self, test_data |-> test_data,
          error |-> "NotFittedError", out |-> <<>>]
    ELSE IF \E i \in 1..Len(self.all_ids) : get_group(test_data, self.all_ids[i]) = <<>>
    THEN [self |-> self, test_data |-> test_data, error |-> "KeyError", out |-> <<>>]
    ELSE LET r == predict_loop(self, self.all_ids, test_data, <<>>)
         IN  IF r.error # "none"
             THEN [self |-> self, test_data |-> test_data,
                   error |-> r.error, out |-> <<>>]
             ELSE IF self.all_ids = <<>>
             THEN [self |-> self, test_data |-> test_data,
                   error |-> "ValueError", out |-> <<>>]
             ELSE [self |-> self, test_data |-> test_data,
                   error |-> "none", out |-> r.out]

\* Forecaster.save: [self, error].  joblib.dump writes the object to the file
\* system, which is outside the modelled state.
save(self) ==
    IF not_fitted(self) THEN [self |-> self, error |-> "NotFittedError"]
    ELSE [self |-> self, error |-> "none"]

\* train_predictor_model, lines 222-225: the recency window.
history_length_of(data_schema, hyperparameters) ==
    IF hyperparameters.has_ratio /\ Truthy(hyperparameters.history_forecast_ratio)
    THEN data_schema.forecast_length * hyperparameters.history_forecast_ratio
    ELSE None

\* train_predictor_model: [self, error, calls, hyperparameters]: the new
\* Forecaster, fitted, and the caller's dict after the call, from which the
\* history_forecast_ratio key has been popped (lines 227-228).
train_predictor_model(history, data_schema, hyperparameters) ==
    LET r == fit(Forecaster(hyperparameters.lags), history, data_schema,
                 history_length_of(data_schema, hyperparameters))
    IN  [self |-> r.self, error |-> r.error, calls |-> r.calls,
         hyperparameters |-> NoRatio(hyperparameters.lags)]

\* ----------------------------------------------------------------- state
VARIABLES
    self,             \* the Forecaster object the caller holds
    hyperparameters,  \* the hyperparameters dict the caller holds
    call,             \* the call that has just returned or raised, if any
    fit_completed,    \* history: a fit of `self` has returned normally
    populated_by      \* history: data_schema of the last fit that assigned self.models

vars == <<self, hyperparameters, call, fit_completed, populated_by>>

\* No call in progress.
NoCall ==
    [op |-> "idle", error |-> "none", table |-> <<>>, table_after |-> <<>>,
     data_schema |-> NoSchema, history_length |-> None,
     hyperparameters |-> NoRatio(0), out |-> <<>>, calls |-> <<>>]

Init ==
    /\ hyperparameters \in Hyperparameters
    /\ self = Forecaster(hyperparameters.lags)
    /\ call = NoCall
    /\ fit_completed = FALSE
    /\ populated_by = NoSchema

\* self.fit(history, data_schema) on the object held; history_length takes its
\* default, None (only train_predictor_model passes another).
Fit(history, data_schema) ==
    LET history_length == None
        r == fit(self, history, data_schema, history_length)
    IN  /\ call.op = "idle"
        /\ self' = r.self
        /\ call' = [NoCall EXCEPT !.op = "fit", !.error = r.error,
                                  !.table = history, !.table_after = history,
                                  !.data_schema = data_schema,
                                  !.history_length = history_length,
                                  !.calls = r.calls]
        /\ fit_completed' = (fit_completed \/ r.error = "none")
        /\ populated_by' = data_schema
        /\ UNCHANGED hyperparameters

\* self = train_predictor_model(history, data_schema, hyperparameters): the
\* caller holds the new object when the call returns, and the object it held
\* when the call raises.
Train(history, data_schema) ==
    LET r == train_predictor_model(history, data_schema, hyperparameters)
    IN  /\ call.op = "idle"
        /\ call' = [NoCall EXCEPT !.op = "train", !.error = r.error,
                                  !.table = history, !.table_after = history,
                                  !.data_schema = data_schema,
                                  !.history_length =
                                      history_length_of(data_schema, hyperparameters),
                                  !.hyperparameters = hyperparameters,
                                  !.calls = r.calls]
        /\ hyperparameters' = r.hyperparameters
        /\ IF r.error = "none"
           THEN /\ self' = r.self
                /\ fit_completed' = TRUE
                /\ populated_by' = data_schema
           ELSE UNCHANGED <<self, fit_completed, populated_by>>

\* self.predict(test_data, prediction_col_name).
Predict(test_data) ==
    LET r == predict(self, test_data)
    IN  /\ call.op = "idle"
        /\ self' = r.self
        /\ call' = [NoCall EXCEPT !.op = "predict", !.error = r.error,
                                  !.table = test_data, !.table_after = r.test_data,
                                  !.out = r.out]
        /\ UNCHANGED <<hyperparameters, fit_completed, populated_by>>

\* self.save(model_dir_path).
Save ==
    LET r == save(self)
    IN  /\ call.op = "idle"
        /\ self' = r.self
        /\ call' = [NoCall EXCEPT !.op = "save", !.error = r.error]
        /\ UNCHANGED <<hyperparameters, fit_completed, populated_by>>

\* The caller takes the outcome of the call and goes on.
Return ==
    /\ call.op # "idle"
    /\ call' = NoCall
    /\ UNCHANGED <<self, hyperparameters, fit_completed, populated_by>>

Next ==
    \/ \E history \in Histories, data_schema \in Schemas : Fit(history, data_schema)
    \/ \E history \in Histories, data_schema \in Schemas : Train(history, data_schema)
    \/ \E test_data \in FutureTables : Predict(test_data)
    \/ Save
    \/ Return

Spec == Init /\ [][Next]_vars

\* ---------------------------------------------------------------- claims
Range(seq) == {seq[i] : i \in DOMAIN seq}

TableIds(table) == {table[i].id : i \in DOMAIN table}

Min(a, b) == IF a <= b THEN a ELSE b

\* The identifiers of the rows of a table with runs of equal neighbours merged:
\* the sequence of per-entity blocks.
RECURSIVE Blocks(_)
Blocks(table) ==
    IF Len(table) <= 1 THEN [i \in DOMAIN table |-> table[i].id]
    ELSE IF table[1].id = table[2].id THEN Blocks(Tail(table))
    ELSE <<table[1].id>> \o Blocks(Tail(table))

Ascending(seq) == \A i, j \in DOMAIN seq : i < j => seq[i] < seq[j]

\* C1: while no fit of the forecaster has completed, predict and save raise
\* NotFittedError and leave the forecaster as it was; once a fit has completed,
\* neither raises NotFittedError.
C1_NotFittedGuard ==
    [][(call.op = "idle" /\ call'.op \in {"predict", "save"}) =>
          IF fit_completed
          THEN call'.error # "NotFittedError"
          ELSE call'.error = "NotFittedError" /\ self' = self]_vars

\* C1 witness: predict has raised NotFittedError on a forecaster whose only fit
\* was aborted after it had stored a model.
C1_Witness ==
    /\ call.op = "predict"
    /\ call.error = "NotFittedError"
    /\ ~fit_completed
    /\ DOMAIN self.models # {}

\* C2: on a trained forecaster, for every entity of the registry with rows in
\* the future table, predict returns one row per future row of that entity, in
\* the order of the future table, each carrying the entity's identifier.
C2_RowsPerEntity ==
    (call.op = "predict" /\ self.is_trained) =>
        \A id \in DOMAIN self.models :
            get_group(call.table, id) # <<>> =>
                /\ call.error = "none"
                /\ Select(call.out, id) = get_group(call.table, id)

\* C3: rows of an entity without a model in the registry do not make predict
\* fail (the failure of the no-model branch is the AttributeError), and the
\* output holds no row of that entity.
C3_UnknownEntityExcluded ==
    (call.op = "predict" /\ self.is_trained) =>
        \A id \in Ids \ DOMAIN self.models :
            get_group(call.table, id) # <<>> =>
                /\ call.error # "AttributeError"
                /\ Select(call.out, id) = <<>>

\* C4: when the entities trained on and the entities of the future table
\* differ, predict completes and returns the rows of the entities present in
\* both, and of no other.
C4_MismatchedEntitySets ==
    LET both == DOMAIN self.models \cap TableIds(call.table)
    IN  (/\ call.op = "predict"
         /\ self.is_trained
         /\ DOMAIN self.models = Range(self.all_ids)
         /\ DOMAIN self.models # TableIds(call.table)
         /\ both # {}) =>
            /\ call.error = "none"
            /\ TableIds(call.out) = both
            /\ Len(call.out) =
                   Cardinality({i \in DOMAIN call.table : call.table[i].id \in both})

\* C5 as claimed: fit records the identifiers in order of first appearance in
\* the history, and predict emits the per-entity blocks in that order.
C5_FirstEncounterOrder ==
    /\ (call.op \in {"fit", "train"} /\ call.error = "none") =>
           self.all_ids = FirstSeenIds(call.table)
    /\ (call.op = "predict" /\ call.error = "none") =>
           Blocks(call.out) = self.all_ids

\* C5 as amended: fit records the distinct identifiers of the history in
\* ascending order, and a predict that returns emits one block per entity of
\* all_ids, in the order of all_ids, whatever the order of the future table.
C5_SortedOrder ==
    /\ (call.op \in {"fit", "train"} /\ call.error = "none") =>
           /\ Ascending(self.all_ids)
           /\ Range(self.all_ids) = TableIds(call.table)
    /\ (call.op = "predict" /\ call.error = "none") =>
           Blocks(call.out) = self.all_ids

\* C5 witness: a fit has completed on a history in which the identifiers first
\* appear in another order than the one recorded.
C5_Witness ==
    /\ call.op \in {"fit", "train"}
    /\ call.error = "none"
    /\ Len(self.all_ids) >= 2
    /\ FirstSeenIds(call.table) # self.all_ids

\* C6: train on a history of zero rows fails with EmptyHistoryError.
C6_EmptyHistoryRejected ==
    (call.op = "train" /\ call.table = <<>>) => call.error = "EmptyHistoryError"

\* The entities of the history of the last fit whose series, after the cut,
\* is too short for the lags.
ShortEntities ==
    {id \in TableIds(call.table) :
        TooShort(truncate(get_group(call.table, id), call.history_length),
                 hyperparameters.lags)}

\* C7: when one entity's history is too short for the lags, the training call
\* still completes and every other entity has its model in the registry.
C7_ShortEntityIsolated ==
    (/\ call.op \in {"fit", "train"}
     /\ ShortEntities # {}
     /\ ShortEntities # TableIds(call.table)) =>
        /\ call.error = "none"
        /\ TableIds(call.table) \ ShortEntities \subseteq DOMAIN self.models

\* The series the claim C8 expects an entity to be fitted on: the last
\* min(n, length) observations.
LastMin(series, n) ==
    SubSeq(series, Len(series) - Min(n, Len(series)) + 1, Len(series))

\* C8 as claimed: when the ratio is supplied, every entity is fitted on the
\* last min(forecast_length * ratio, length) observations; otherwise on its
\* whole series.
C8_RecencyWindow ==
    call.op = "train" =>
        \A k \in DOMAIN call.calls :
            LET series == get_group(call.table, call.calls[k].id)
                hp == call.hyperparameters
                n == call.data_schema.forecast_length * hp.history_forecast_ratio
            IN  call.calls[k].y = IF hp.has_ratio THEN LastMin(series, n) ELSE series

\* C8 as amended: when a ratio other than 0 is supplied, every entity handed
\* to _fit_on_series is fitted on the last min(forecast_length * ratio, length)
\* observations, in their order; when no ratio or the ratio 0 is supplied, on
\* its whole series.
C8_RecencyWindowNonzero ==
    call.op = "train" =>
        \A k \in DOMAIN call.calls :
            LET series == get_group(call.table, call.calls[k].id)
                hp == call.hyperparameters
                n == call.data_schema.forecast_length * hp.history_forecast_ratio
            IN  call.calls[k].y =
                    IF hp.has_ratio /\ hp.history_forecast_ratio # 0
                    THEN LastMin(series, n) ELSE series

\* C8 witness: train with a ratio has completed, having fitted an entity on
\* fewer observations than its series holds.
C8_Witness ==
    /\ call.op = "train"
    /\ call.error = "none"
    /\ call.hyperparameters.has_ratio
    /\ \E k \in DOMAIN call.calls :
          /\ call.calls[k].y # <<>>
          /\ Len(call.calls[k].y) < Len(get_group(call.table, call.calls[k].id))

\* C9: predict and save leave the forecaster and the caller's future table
\* unchanged, and predict on the same future table returns the same outcome
\* again, whatever predict and save calls come in between.
C9_PredictSaveFrame ==
    [][(call.op = "idle" /\ call'.op \in {"predict", "save"}) =>
          /\ self' = self
          /\ call'.table_after = call'.table
          /\ call'.op = "predict" =>
                \A t \in {call'.table} \cup {Table(<<id>>) : id \in Ids} :
                    LET between == save(predict(self', t).self).self
                        again == predict(between, call'.table)
                    IN  again.error = call'.error /\ again.out = call'.out]_vars

\* C9 witness: predict has returned a forecast of several rows.
C9_Witness ==
    /\ call.op = "predict"
    /\ call.error = "none"
    /\ Len(call.out) >= 2

\* C10: whenever the forecaster is marked trained, the keys of models are the
\* identifiers of all_ids and data_schema is the schema of the fit that
\* populated models.
C10_RegistryConsistent ==
    self.is_trained =>
        /\ DOMAIN self.models = Range(self.all_ids)
        /\ self.data_schema = populated_by

====
